---- MODULE Spec2Model ----
(***************************************************************************)
(* NDBUserDatastore (flask_security/datastore.py) over the ndb models of   *)
(* tests/conftest.py: users with a denormalised list of role names, roles  *)
(* keyed by their name, the tiered get_user / find_user lookups and the    *)
(* activation flags.                                                       *)
(*                                                                         *)
(* A stored entity has two faces: the in-memory instance the caller holds  *)
(* (mem) and the record last written by put (users).  One instance exists  *)
(* per key, so a lookup hands back the instance the caller already holds.  *)
(* Queries filter on email / username / name, which no operation changes   *)
(* after creation, and return their first result in key order.             *)
(***************************************************************************)
EXTENDS Integers, Sequences, FiniteSets, TLC

\* ------------------------------------------------------------------ bounds
MaxUsers == 2
MaxAnonRoles == 2

\* ------------------------------------------------------------------ inputs
\* create_user: emails, usernames ("<none>": no username given, which no
\* query string equals), the active keyword
Emails == {"a", "b", "B"}
Usernames == {"<none>", "a", "b"}
ActiveArgs == {"absent", "true", "false"}
\* strings handed to get_user / find_user, and as the user of a role change
LookupStrings == {"a", "A", "b", "nope", ""}
UserStrings == {"A", "nope"}
\* role names; "" is the name Role.__init__ does not use as the key
RoleNames == {"admin", "editor"}
StoreRoleNames == {"admin", "editor", ""}
\* roles lists handed to create_user
RolesArgs == {<<>>, <<"admin">>, <<"editor">>, <<"admin", "editor">>,
              <<"admin", "admin">>}

None == 0

VARIABLES
    py3,          \* sys.version_info > (3,) (datastore.py:193), fixed per run
    longDefined,  \* whether the name long is bound (datastore.py:191-194)
    users,        \* stored User records, by key 1..Len (conftest.py:173-184)
    mem,          \* the User instances in memory, by key
    roles,        \* stored Role entities (conftest.py:163-171)
    last          \* the latest call: arguments, result or exception

vars == <<py3, longDefined, users, mem, roles, last>>

\* ----------------------------------------------------------------- helpers
\* str.lower() on the strings the model uses
Lower(s) ==
    CASE s = "A" -> "a"
      [] s = "B" -> "b"
      [] OTHER -> s

RECURSIVE Count(_, _)
\* number of occurrences of x in the list s (Python: s.count(x))
Count(x, s) ==
    IF s = <<>> THEN 0
    ELSE (IF Head(s) = x THEN 1 ELSE 0) + Count(x, Tail(s))

\* Python: x in s
In(x, s) == \E i \in 1..Len(s) : s[i] = x

RECURSIVE RemoveFirst(_, _)
\* Python: s.remove(x), which drops the first occurrence only
RemoveFirst(x, s) ==
    IF s = <<>> THEN <<>>
    ELSE IF Head(s) = x THEN Tail(s)
    ELSE <<Head(s)>> \o RemoveFirst(x, Tail(s))

Min(S) == CHOOSE m \in S : \A n \in S : m <= n

\* ------------------------------------------------------------- the stores
\* a stored role is its key and its name: auto = 0 when the key is the name
NoRole == [name |-> "", auto |-> -1]

AnonRoles == {r \in roles : r.auto > 0}

\* Role(name=n) without the key set from the name: every put allocates an id
RoleKeyAllocated(n) == [name |-> n, auto |-> Cardinality(AnonRoles) + 1]

\* the entity put() stores for Role(name=n): a truthy name becomes the key
\* (so a second put overwrites), any other name gets an allocated id
RoleKey(n) ==
    IF n # ""
    THEN [name |-> n, auto |-> 0]
    ELSE [name |-> n, auto |-> Cardinality(AnonRoles) + 1]

\* role_model.query(role_model.name == role_name).get()
FindRole(role_name) ==
    LET found == {r \in roles : r.name = role_name}
    IN IF found = {} THEN NoRole
       ELSE CHOOSE r \in found : \A q \in found : r.auto <= q.auto

\* user_model.get_by_id(model_id)
GetById(model_id) ==
    IF model_id \in 1..Len(users) THEN model_id ELSE None

\* user_model.query(user_model.email == e).get()
QueryEmail(e) ==
    LET found == {k \in 1..Len(users) : users[k].email = e}
    IN IF found = {} THEN None ELSE Min(found)

\* user_model.query(user_model.username == e).get()
QueryUsername(e) ==
    LET found == {k \in 1..Len(users) : users[k].username = e}
    IN IF found = {} THEN None ELSE Min(found)

\* model.put() on the user instance u: the stored record becomes the instance
PutUser(m, u) ==
    IF u > Len(users) THEN Append(users, m[u]) ELSE [users EXCEPT ![u] = m[u]]

\* ------------------------------------------------------------ call record
\* what the latest call was given and gave back; again holds the outcome of
\* the call before it when that was the same operation on the same arguments
Call(op, args, exc, val, pre, u, saved) ==
    [op |-> op, args |-> args, exc |-> exc, val |-> val, pre |-> pre,
     u |-> u, saved |-> saved,
     again |-> IF last.op = op /\ last.args = args
               THEN <<[exc |-> last.exc, val |-> last.val, pre |-> last.pre]>>
               ELSE <<>>]

\* ----------------------------------------------------------------- lookups
\* isinstance(id_or_email, long): long is int on Python 3, the builtin long
\* (which a plain int is not an instance of) on Python 2
IsLong(x) == IF py3 THEN x.kind = "int" ELSE x.kind = "long"

IsString(x) == x.kind = "str"

GetUserVal(x) ==
    IF IsLong(x) THEN GetById(x.n)
    ELSE IF IsString(x)
    THEN LET email_or_username == Lower(x.s)
             byEmail == QueryEmail(email_or_username)
             byUsername == QueryUsername(email_or_username)
         IN IF byEmail # None THEN byEmail
            ELSE IF byUsername # None THEN byUsername
            ELSE None
    ELSE None

\* find_user(email, id): "" and 0 stand for an absent (or falsy) argument
FindUserOutcome(email, id) ==
    IF id # 0
    THEN IF longDefined
         THEN [exc |-> "", val |-> GetById(id)]
         ELSE [exc |-> "NameError", val |-> None]
    ELSE IF email # ""
    THEN [exc |-> "", val |-> QueryEmail(Lower(email))]
    ELSE [exc |-> "", val |-> None]

GetUserInputs ==
    [kind : {"int", "long"}, n : 0..MaxUsers + 1, s : {""}]
        \cup [kind : {"str"}, n : {0}, s : LookupStrings]
        \cup [kind : {"other"}, n : {0}, s : {""}]

GetUser(x) ==
    /\ x.kind = "long" => ~py3
    /\ longDefined' = (longDefined \/ py3)
    /\ last' = Call("get_user", <<x>>, "", GetUserVal(x), 0, None, FALSE)
    /\ UNCHANGED <<py3, users, mem, roles>>

FindUser(email, id) ==
    /\ LET out == FindUserOutcome(email, id)
       IN last' = Call("find_user", <<email, id>>, out.exc, out.val, 0, None, FALSE)
    /\ UNCHANGED <<py3, longDefined, users, mem, roles>>

\* ------------------------------------------------------------------ roles
CreateRole(name) ==
    /\ name = "" => Cardinality(AnonRoles) < MaxAnonRoles
    /\ roles' = roles \cup {RoleKey(name)}
    /\ last' = Call("create_role", <<name>>, "", RoleKey(name), 0, None, FALSE)
    /\ UNCHANGED <<py3, longDefined, users, mem>>

FindRoleCall(name) ==
    /\ last' = Call("find_role", <<name>>, "", FindRole(name), 0, None, FALSE)
    /\ UNCHANGED <<py3, longDefined, users, mem, roles>>

\* find_role(name) or create_role(name=name)
FindOrCreateRole(name) ==
    /\ (name = "" /\ FindRole(name) = NoRole) => Cardinality(AnonRoles) < MaxAnonRoles
    /\ LET found == FindRole(name)
           rv == IF found # NoRole THEN found ELSE RoleKey(name)
       IN /\ roles' = IF found # NoRole THEN roles ELSE roles \cup {RoleKey(name)}
          /\ last' = Call("find_or_create_role", <<name>>, "", rv,
                          Cardinality({r \in roles : r.name = name}), None, FALSE)
    /\ UNCHANGED <<py3, longDefined, users, mem>>

\* ------------------------------------------------------------------ users
\* role.name in user.role_names, negated
HasRoleNameInverted(role, u) == ~In(role.name, mem[u].role_names)

\* role.name in user.role_names
HasRoleName(role, u) == In(role.name, mem[u].role_names)

\* _prepare_create_user_args: active defaults to True, every entry of roles
\* is replaced by find_role of its name (NoRole when there is none)
PrepareCreateUserArgs(activeArg, rolesArg) ==
    [active |-> IF activeArg = "absent" THEN TRUE ELSE activeArg = "true",
     roles |-> [i \in 1..Len(rolesArg) |-> FindRole(rolesArg[i])]]

CreateUser(email, username, activeArg, rolesArg) ==
    /\ Len(users) < MaxUsers
    /\ LET kwargs == PrepareCreateUserArgs(activeArg, rolesArg)
           args == <<email, username, activeArg, rolesArg>>
           id == Len(users) + 1
       IN IF \E i \in 1..Len(kwargs.roles) : kwargs.roles[i] = NoRole
          THEN \* [r.name for r in roles] reads .name of None
               /\ last' = Call("create_user", args, "AttributeError", None, 0, None, FALSE)
               /\ UNCHANGED <<users, mem>>
          ELSE LET role_names == [i \in 1..Len(kwargs.roles) |-> kwargs.roles[i].name]
                   user == [email |-> email, username |-> username,
                            active |-> kwargs.active, role_names |-> role_names]
               IN /\ mem' = Append(mem, user)
                  /\ users' = PutUser(mem', id)
                  /\ last' = Call("create_user", args, "", id, 0, id, TRUE)
    /\ UNCHANGED <<py3, longDefined, roles>>

\* a user argument is an instance the caller holds or a string; a role
\* argument is a Role instance (only its name is read) or a string
UserArgs ==
    [kind : {"obj"}, id : 1..MaxUsers, s : {""}]
        \cup [kind : {"str"}, id : {0}, s : UserStrings]

RoleArgs == [kind : {"obj", "str"}, name : RoleNames]

\* _prepare_role_modify_args
PrepareRoleModifyArgs(user, role) ==
    [user |-> IF user.kind = "str" THEN FindUserOutcome(user.s, 0).val ELSE user.id,
     role |-> IF role.kind = "str" THEN FindRole(role.name)
              ELSE [name |-> role.name, auto |-> 0]]

AddRoleToUser(user, role) ==
    /\ user.kind = "obj" => user.id <= Len(mem)
    /\ LET p == PrepareRoleModifyArgs(user, role)
           args == <<user, role>>
       IN IF p.role = NoRole \/ p.user = None
          THEN \* role.name / user.role_names of None
               /\ last' = Call("add_role_to_user", args, "AttributeError", FALSE,
                               <<>>, p.user, FALSE)
               /\ UNCHANGED <<users, mem>>
          ELSE LET pre == mem[p.user].role_names
               IN IF HasRoleName(p.role, p.user)
                  THEN /\ last' = Call("add_role_to_user", args, "", FALSE, pre,
                                       p.user, FALSE)
                       /\ UNCHANGED <<users, mem>>
                  ELSE /\ mem' = [mem EXCEPT ![p.user].role_names =
                                      Append(pre, p.role.name)]
                       /\ users' = PutUser(mem', p.user)
                       /\ last' = Call("add_role_to_user", args, "", TRUE, pre,
                                       p.user, TRUE)
    /\ UNCHANGED <<py3, longDefined, roles>>

RemoveRoleFromUser(user, role) ==
    /\ user.kind = "obj" => user.id <= Len(mem)
    /\ LET p == PrepareRoleModifyArgs(user, role)
           args == <<user, role>>
       IN IF p.role = NoRole \/ p.user = None
          THEN /\ last' = Call("remove_role_from_user", args, "AttributeError",
                               FALSE, <<>>, p.user, FALSE)
               /\ UNCHANGED <<users, mem>>
          ELSE LET pre == mem[p.user].role_names
               IN IF HasRoleName(p.role, p.user)
                  THEN /\ mem' = [mem EXCEPT ![p.user].role_names =
                                      RemoveFirst(p.role.name, pre)]
                       /\ users' = PutUser(mem', p.user)
                       /\ last' = Call("remove_role_from_user", args, "", TRUE,
                                       pre, p.user, TRUE)
                  ELSE /\ last' = Call("remove_role_from_user", args, "", FALSE,
                                       pre, p.user, FALSE)
                       /\ UNCHANGED <<users, mem>>
    /\ UNCHANGED <<py3, longDefined, roles>>

\* ------------------------------------------------------------- activation
\* user.active = True, whatever it was
ToggledStuck(active) == TRUE

\* not user.active
Toggled(active) == ~active

ToggleActive(u) ==
    /\ u \in 1..Len(mem)
    /\ mem' = [mem EXCEPT ![u].active = Toggled(mem[u].active)]
    /\ last' = Call("toggle_active", <<u>>, "", TRUE, mem[u].active, u, FALSE)
    /\ UNCHANGED <<py3, longDefined, users, roles>>

DeactivateUser(u) ==
    /\ u \in 1..Len(mem)
    /\ IF mem[u].active
       THEN /\ mem' = [mem EXCEPT ![u].active = FALSE]
            /\ last' = Call("deactivate_user", <<u>>, "", TRUE, mem[u].active, u, FALSE)
       ELSE /\ last' = Call("deactivate_user", <<u>>, "", FALSE, mem[u].active, u, FALSE)
            /\ UNCHANGED mem
    /\ UNCHANGED <<py3, longDefined, users, roles>>

ActivateUser(u) ==
    /\ u \in 1..Len(mem)
    /\ IF ~mem[u].active
       THEN /\ mem' = [mem EXCEPT ![u].active = TRUE]
            /\ last' = Call("activate_user", <<u>>, "", TRUE, mem[u].active, u, FALSE)
       ELSE /\ last' = Call("activate_user", <<u>>, "", FALSE, mem[u].active, u, FALSE)
            /\ UNCHANGED mem
    /\ UNCHANGED <<py3, longDefined, users, roles>>

\* ---------------------------------------------------------- specification
Init ==
    /\ py3 \in BOOLEAN
    /\ longDefined = ~py3
    /\ users = <<>>
    /\ mem = <<>>
    /\ roles = {}
    /\ last = [op |-> "init", args |-> <<>>, exc |-> "", val |-> 0, pre |-> 0,
               u |-> None, saved |-> FALSE, again |-> <<>>]

\* role changes on stored users
Next ==
    \/ \E rs \in RolesArgs : CreateUser("a", "<none>", "absent", rs)
    \/ \E n \in RoleNames : CreateRole(n)
    \/ \E u \in UserArgs, r \in RoleArgs : AddRoleToUser(u, r)
    \/ \E u \in UserArgs, r \in RoleArgs : RemoveRoleFromUser(u, r)

Spec == Init /\ [][Next]_vars

\* the role store
NextRoles ==
    \/ \E n \in StoreRoleNames : CreateRole(n)
    \/ \E n \in StoreRoleNames : FindRoleCall(n)
    \/ \E n \in StoreRoleNames : FindOrCreateRole(n)

SpecRoles == Init /\ [][NextRoles]_vars

\* the active flag
NextActive ==
    \/ \E a \in ActiveArgs : CreateUser("a", "<none>", a, <<>>)
    \/ \E u \in 1..MaxUsers : ToggleActive(u)
    \/ \E u \in 1..MaxUsers : DeactivateUser(u)
    \/ \E u \in 1..MaxUsers : ActivateUser(u)

SpecActive == Init /\ [][NextActive]_vars

\* the lookups
NextLookup ==
    \/ \E e \in Emails, n \in Usernames : CreateUser(e, n, "absent", <<>>)
    \/ \E x \in GetUserInputs : GetUser(x)
    \/ \E e \in LookupStrings, k \in 0..MaxUsers + 1 : FindUser(e, k)

SpecLookup == Init /\ [][NextLookup]_vars

\* ----------------------------------------------------------------- claims
\* the users holding e as email / as username, for stating what a lookup
\* has to return
WithEmail(e) == {k \in 1..Len(users) : users[k].email = e}
WithUsername(e) == {k \in 1..Len(users) : users[k].username = e}

\* C1: add_role_to_user called twice in a row on a stored user and an
\* existing role that was not a member returns true, then false, and the
\* role is then in the user's role_names exactly once.
C1_AddRoleTwice ==
    (/\ last.op = "add_role_to_user"
     /\ last.again # <<>>
     /\ last.exc = ""
     /\ last.again[1].exc = ""
     /\ ~In(last.args[2].name, last.again[1].pre))
    => /\ last.again[1].val = TRUE
       /\ last.val = FALSE
       /\ Count(last.args[2].name, mem[last.u].role_names) = 1
       /\ Count(last.args[2].name, users[last.u].role_names) = 1

\* a second add_role_to_user of the same role to the same user, after a
\* first one that added it
C1_Witness ==
    /\ last.op = "add_role_to_user"
    /\ last.again # <<>>
    /\ last.exc = ""
    /\ last.again[1].exc = ""
    /\ ~In(last.args[2].name, last.again[1].pre)
    /\ last.val = FALSE

\* C2: no user's role_names holds a role more than once, whatever
\* create_user, add_role_to_user and remove_role_from_user calls were made.
C2_RoleAtMostOnce ==
    \A u \in 1..Len(mem) : \A n \in RoleNames :
        Count(n, mem[u].role_names) <= 1

\* C3: get_user resolves by id for an integer, else by the lowercased string
\* as email, else as username, else gives None.
C3_GetUserTiers ==
    last.op = "get_user" =>
        LET x == last.args[1]
            e == Lower(x.s)
        IN /\ last.exc = ""
           /\ x.kind \in {"int", "long"} =>
                  last.val = (IF x.n \in 1..Len(users) THEN x.n ELSE None)
           /\ x.kind = "str" =>
                  IF WithEmail(e) # {} THEN last.val \in WithEmail(e)
                  ELSE IF WithUsername(e) # {} THEN last.val \in WithUsername(e)
                  ELSE last.val = None
           /\ x.kind = "other" => last.val = None

\* C4: add_role_to_user / remove_role_from_user given a user string or a
\* role string that resolves to nothing do not raise and return a boolean.
C4_UnresolvedDoesNotRaise ==
    (/\ last.op \in {"add_role_to_user", "remove_role_from_user"}
     /\ \/ (last.args[1].kind = "str" /\ WithEmail(Lower(last.args[1].s)) = {})
        \/ (last.args[2].kind = "str" /\ FindRole(last.args[2].name) = NoRole))
    => /\ last.exc = ""
       /\ last.val \in BOOLEAN

\* C5: create_user(roles=[n]) with no role named n stored returns a
\* persisted user with no roles, and creates no role named n.
C5_MissingRoleGivesNoRoles ==
    (/\ last.op = "create_user"
     /\ Len(last.args[4]) = 1
     /\ FindRole(last.args[4][1]) = NoRole)
    => /\ last.exc = ""
       /\ last.val \in 1..Len(users)
       /\ users[last.val].role_names = <<>>
       /\ mem[last.val].role_names = <<>>

\* C6 as stated: find_or_create_role(n) called twice returns a role named n
\* both times, the same one, and exactly one role named n is stored then.
C6_AnyNameOneRole ==
    (last.op = "find_or_create_role" /\ last.again # <<>>)
    => /\ last.val.name = last.args[1]
       /\ last.again[1].val = last.val
       /\ Cardinality({r \in roles : r.name = last.args[1]}) = 1

\* C6 amended: the same for every non-empty name n.
C6_FindOrCreateTwice ==
    (last.op = "find_or_create_role" /\ last.again # <<>> /\ last.args[1] # "")
    => /\ last.val.name = last.args[1]
       /\ last.again[1].val = last.val
       /\ Cardinality({r \in roles : r.name = last.args[1]}) = 1

\* a second find_or_create_role of a non-empty name, after a first one
\* that had to create the role
C6_Witness ==
    /\ last.op = "find_or_create_role"
    /\ last.again # <<>>
    /\ last.args[1] # ""
    /\ last.again[1].pre = 0
    /\ last.pre = 1

\* C7: remove_role_from_user of a role that is not a member returns false,
\* changes no membership and saves nothing; of a member it returns true and
\* the role is no member afterwards.
C7_RemoveRole ==
    (last.op = "remove_role_from_user" /\ last.exc = "")
    => IF ~In(last.args[2].name, last.pre)
       THEN /\ last.val = FALSE
            /\ mem[last.u].role_names = last.pre
            /\ ~last.saved
       ELSE /\ last.val = TRUE
            /\ ~In(last.args[2].name, mem[last.u].role_names)

\* C8: activate_user returns true exactly when the flag was false and leaves
\* it true; deactivate_user returns true exactly when it was true and leaves
\* it false; a call returning false leaves the flag as it was; toggle_active
\* returns true, and two in a row restore the flag.
C8_ActiveFlag ==
    /\ last.op = "activate_user" =>
           /\ last.val = ~last.pre
           /\ mem[last.u].active = TRUE
    /\ last.op = "deactivate_user" =>
           /\ last.val = last.pre
           /\ mem[last.u].active = FALSE
    /\ (last.op \in {"activate_user", "deactivate_user"} /\ last.val = FALSE) =>
           mem[last.u].active = last.pre
    /\ last.op = "toggle_active" =>
           /\ last.val = TRUE
           /\ mem[last.u].active = ~last.pre
           /\ last.again # <<>> => mem[last.u].active = last.again[1].pre

\* a second toggle_active of the same user right after a first
C8_Witness ==
    /\ last.op = "toggle_active"
    /\ last.again # <<>>
    /\ mem[last.u].active = last.again[1].pre

\* C9: after any sequence of operations the persisted record of every user
\* (role membership and active flag) equals the in-memory user.
C9_PersistedEqualsMemory ==
    \A u \in 1..Len(mem) :
        /\ users[u].active = mem[u].active
        /\ users[u].role_names = mem[u].role_names

\* C10: find_user(id=k) gives the user with key k (or None) whatever was
\* called before, find_user(email=e) the user whose email is lowercased e
\* (or None), and no user is matched by username.
C10_FindUser ==
    last.op = "find_user" =>
        LET email == last.args[1]
            id == last.args[2]
        IN /\ last.exc = ""
           /\ id # 0 => last.val = (IF id \in 1..Len(users) THEN id ELSE None)
           /\ (id = 0 /\ email # "") =>
                  IF WithEmail(Lower(email)) # {}
                  THEN last.val \in WithEmail(Lower(email))
                  ELSE last.val = None
           /\ (id = 0 /\ email = "") => last.val = None

====
